---------------------------- MODULE Spec2Model ----------------------------
(***************************************************************************)
(* A model of sportsreference's NBA Teams container (nba/teams.py) and NHL *)
(* Schedule container (nhl/schedule.py): row aggregation, record           *)
(* construction, keyed / dated lookup, and the accessors' coercions.       *)
(*                                                                         *)
(* Python values are records [t |-> type, v |-> payload]:                  *)
(*   None            [t |-> "None",  v |-> <<>>]                           *)
(*   str             [t |-> "str",   v |-> sequence of one-char strings]   *)
(*   int             [t |-> "int",   v |-> integer]                        *)
(*   float           [t |-> "float", v |-> <<num, den>>]  (num / den)      *)
(*                   (inf <<1, 0>>, -inf <<-1, 0>>, nan <<0, 0>>)          *)
(*   named constant  [t |-> "const", v |-> its name]                       *)
(*   raised error    [t |-> "raise", v |-> exception class name]           *)
(*   a record (Team, Game)  [t |-> "obj", v |-> the record]                *)
(*   a list of records      [t |-> "list", v |-> the sequence]             *)
(* Text is a sequence of characters so that lower(), upper(), int(),       *)
(* float(), replace() and re.findall() are computed, not assumed.          *)
(***************************************************************************)
EXTENDS Integers, Sequences, FiniteSets, TLC

\* ------------------------------------------------------------------ values

None == [t |-> "None", v |-> <<>>]
StrV(s) == [t |-> "str", v |-> s]
IntV(n) == [t |-> "int", v |-> n]
FloatV(num, den) == [t |-> "float", v |-> <<num, den>>]
Const(name) == [t |-> "const", v |-> name]
Raise(cls) == [t |-> "raise", v |-> cls]
Obj(r) == [t |-> "obj", v |-> r]
ListV(s) == [t |-> "list", v |-> s]

\* == on two values: values of different types are never equal
Eq(x, y) == x.t = y.t /\ x.v = y.v

IsNone(x) == x.t = "None"
IsStr(x) == x.t = "str"
IsInt(x) == x.t = "int"
IsFloat(x) == x.t = "float"
IsRaise(x) == x.t = "raise"

\* ------------------------------------------------------------------ text

Digits == {"0", "1", "2", "3", "4", "5", "6", "7", "8", "9"}

DigitVal(c) ==
    CASE c = "0" -> 0 [] c = "1" -> 1 [] c = "2" -> 2 [] c = "3" -> 3
      [] c = "4" -> 4 [] c = "5" -> 5 [] c = "6" -> 6 [] c = "7" -> 7
      [] c = "8" -> 8 [] c = "9" -> 9

UpperCase == <<"A", "B", "C", "D", "E", "F", "G", "H", "I", "J", "K", "L", "M",
               "N", "O", "P", "Q", "R", "S", "T", "U", "V", "W", "X", "Y", "Z">>
LowerCase == <<"a", "b", "c", "d", "e", "f", "g", "h", "i", "j", "k", "l", "m",
               "n", "o", "p", "q", "r", "s", "t", "u", "v", "w", "x", "y", "z">>

\* str.lower() / str.upper() on one character (ASCII)
LowerChar(c) ==
    IF \E i \in 1..26 : UpperCase[i] = c
      THEN LowerCase[CHOOSE i \in 1..26 : UpperCase[i] = c]
      ELSE c
UpperChar(c) ==
    IF \E i \in 1..26 : LowerCase[i] = c
      THEN UpperCase[CHOOSE i \in 1..26 : LowerCase[i] = c]
      ELSE c

lower(s) == [i \in 1..Len(s) |-> LowerChar(s[i])]
upper(s) == [i \in 1..Len(s) |-> UpperChar(s[i])]

AllDigits(s) == \A i \in 1..Len(s) : s[i] \in Digits

RECURSIVE DigitsValue(_)
\* the integer a digit string denotes (base 10, most significant first)
DigitsValue(s) ==
    IF Len(s) = 0 THEN 0
    ELSE 10 * DigitsValue(SubSeq(s, 1, Len(s) - 1)) + DigitVal(s[Len(s)])

RECURSIVE Pow10(_)
Pow10(k) == IF k = 0 THEN 1 ELSE 10 * Pow10(k - 1)

\* the control characters 0x0b (vertical tab) and 0x1c..0x1f (the file,
\* group, record and unit separators), written as themselves
VT == ""
FS == ""
GS == ""
RS == ""
US == ""

\* the whitespace characters int() and float() ignore around a number:
\* blank, tab, newline, vertical tab, form feed, carriage return
Whitespace == {" ", "\t", "\n", VT, "\f", "\r"}

\* the characters \s of a regular expression matches: the whitespace above
\* and the four separators
RegexSpace == Whitespace \cup {FS, GS, RS, US}

\* str.strip(): int() and float() ignore surrounding whitespace
RECURSIVE StripLeft(_)
StripLeft(s) ==
    IF Len(s) > 0 /\ s[1] \in Whitespace THEN StripLeft(Tail(s)) ELSE s
RECURSIVE StripRight(_)
StripRight(s) ==
    IF Len(s) > 0 /\ s[Len(s)] \in Whitespace
      THEN StripRight(SubSeq(s, 1, Len(s) - 1)) ELSE s
Strip(s) == StripLeft(StripRight(s))

\* the part s[a..b] of a text, empty when a..b is not a part of it
Sub(s, a, b) ==
    IF a >= 1 /\ b <= Len(s) /\ a <= b THEN SubSeq(s, a, b) ELSE <<>>

\* digits grouped by single underscores, as int() and float() accept them:
\* every underscore stands between two digits
UnderscoresOk(s) ==
    \A i \in 1..Len(s) :
        s[i] = "_" => /\ i > 1 /\ i < Len(s)
                      /\ s[i - 1] \in Digits /\ s[i + 1] \in Digits

\* str.replace(old, '') for a one-character old
RECURSIVE RemoveChar(_, _)
RemoveChar(s, c) ==
    IF Len(s) = 0 THEN <<>>
    ELSE IF s[1] = c THEN RemoveChar(Tail(s), c)
    ELSE <<s[1]>> \o RemoveChar(Tail(s), c)

\* index of the first occurrence of character c in s, 0 when there is none
FindChar(s, c) ==
    IF \E i \in 1..Len(s) : s[i] = c
      THEN CHOOSE i \in 1..Len(s) : s[i] = c /\ \A j \in 1..(i - 1) : s[j] # c
      ELSE 0

\* ------------------------------------------------------------ coercions

\* int() of text that takes the empty text for zero
int_of_text_default0(s) ==
    LET body == Strip(s)
    IN  IF Len(body) = 0 THEN IntV(0)
        ELSE IF AllDigits(body) THEN IntV(DigitsValue(body))
        ELSE Raise("ValueError")

\* int() of text that loses the last digit
int_of_text_trunc(s) ==
    LET body == Strip(s)
    IN  IF Len(body) > 0 /\ AllDigits(body)
          THEN IntV(DigitsValue(SubSeq(body, 1, Len(body) - 1)))
          ELSE Raise("ValueError")

\* int() of text: after stripping whitespace, an optional sign and one or
\* more digits, which single underscores may group
int_of_text(s) ==
    LET body == Strip(s)
        signed == Len(body) > 0 /\ body[1] \in {"+", "-"}
        grouped == IF signed THEN Tail(body) ELSE body
        digs == RemoveChar(grouped, "_")
    IN  IF Len(digs) > 0 /\ AllDigits(digs) /\ UnderscoresOk(grouped)
          THEN IntV(IF signed /\ body[1] = "-"
                      THEN 0 - DigitsValue(digs) ELSE DigitsValue(digs))
          ELSE Raise("ValueError")

\* float values that are not numbers of the form num / den
Inf == FloatV(1, 0)
MinusInf == FloatV(-1, 0)
NaN == FloatV(0, 0)

\* int() of a float rounding down: -1.5 gives -2
int_of_float_floor(x) ==
    LET num == IF x.v[2] < 0 THEN 0 - x.v[1] ELSE x.v[1]
        den == IF x.v[2] < 0 THEN 0 - x.v[2] ELSE x.v[2]
    IN  IF den = 0
          THEN Raise(IF num = 0 THEN "ValueError" ELSE "OverflowError")
          ELSE IntV(num \div den)

\* int() of a float: the number without its fraction (rounded towards
\* zero); OverflowError for an infinity, ValueError for nan
int_of_float(x) ==
    LET num == IF x.v[2] < 0 THEN 0 - x.v[1] ELSE x.v[1]
        den == IF x.v[2] < 0 THEN 0 - x.v[2] ELSE x.v[2]
    IN  IF den = 0
          THEN Raise(IF num = 0 THEN "ValueError" ELSE "OverflowError")
        ELSE IF num >= 0 THEN IntV(num \div den)
        ELSE IntV(0 - ((0 - num) \div den))

\* Python's int(x) as the integer accessors call it: None is a TypeError,
\* text is read as a number, an int is itself, a float loses its fraction
int(x) ==
    CASE IsNone(x) -> Raise("TypeError")
      [] IsStr(x) -> int_of_text(x.v)
      [] IsInt(x) -> x
      [] IsFloat(x) -> int_of_float(x)
      [] OTHER -> Raise("TypeError")

\* the float mag * 10^e (mag >= 0), negated when neg
Scaled(neg, mag, e) ==
    LET num == IF e >= 0 THEN mag * Pow10(e) ELSE mag
        den == IF e >= 0 THEN 1 ELSE Pow10(0 - e)
    IN  FloatV(IF neg THEN 0 - num ELSE num, den)

\* Python's float(x) as the percentage accessors call it: after stripping
\* whitespace, an optional sign and then inf, infinity or nan in any letter
\* case, or digits with at most one point and at least one digit, and an
\* optional exponent (e or E, optional sign, digits); single underscores
\* may group digits.  The value is kept exact as <<numerator, denominator>>
\* (a denominator 0 for inf and nan).
float_of_text(s) ==
    LET body == Strip(s)
        signed == Len(body) > 0 /\ body[1] \in {"+", "-"}
        neg == signed /\ body[1] = "-"
        grouped == IF signed THEN Tail(body) ELSE body
        num == RemoveChar(grouped, "_")
        word == lower(grouped)
        epos == FindChar(lower(num), "e")
        mant == IF epos = 0 THEN num ELSE Sub(num, 1, epos - 1)
        expo == IF epos = 0 THEN <<>> ELSE Sub(num, epos + 1, Len(num))
        esigned == Len(expo) > 0 /\ expo[1] \in {"+", "-"}
        edigs == IF esigned THEN Tail(expo) ELSE expo
        e == IF epos = 0 THEN 0
             ELSE IF esigned /\ expo[1] = "-" THEN 0 - DigitsValue(edigs)
             ELSE DigitsValue(edigs)
        dot == FindChar(mant, ".")
        whole == IF dot = 0 THEN mant ELSE Sub(mant, 1, dot - 1)
        frac == IF dot = 0 THEN <<>> ELSE Sub(mant, dot + 1, Len(mant))
        mag == DigitsValue(whole \o frac)
    IN  IF word \in {<<"i", "n", "f">>, <<"i", "n", "f", "i", "n", "i", "t", "y">>}
          THEN (IF neg THEN MinusInf ELSE Inf)
        ELSE IF word = <<"n", "a", "n">> THEN NaN
        ELSE IF /\ UnderscoresOk(grouped)
                /\ AllDigits(whole) /\ AllDigits(frac)
                /\ Len(whole) + Len(frac) > 0
                /\ (epos > 0 => (Len(edigs) > 0 /\ AllDigits(edigs)))
          THEN Scaled(neg, mag, e - Len(frac))
          ELSE Raise("ValueError")

float(x) ==
    CASE IsNone(x) -> Raise("TypeError")
      [] IsStr(x) -> float_of_text(x.v)
      [] IsInt(x) -> FloatV(x.v, 1)
      [] IsFloat(x) -> x
      [] OTHER -> Raise("TypeError")

\* re.findall('\d+', s): the first maximal run of digits of s, <<>> when
\* s holds no digit
FirstDigitRun(s) ==
    IF \A i \in 1..Len(s) : s[i] \notin Digits THEN <<>>
    ELSE LET a == CHOOSE i \in 1..Len(s) :
                     s[i] \in Digits /\ \A j \in 1..(i - 1) : s[j] \notin Digits
             b == CHOOSE k \in a..Len(s) :
                     /\ \A j \in a..k : s[j] \in Digits
                     /\ (k = Len(s) \/ s[k + 1] \notin Digits)
         IN  SubSeq(s, a, b)

\* ------------------------------------------------- table rows and schemes

\* One table cell: its data-stat name, its text, and the team abbreviation
\* its hyperlink's path carries (<<>> when the cell holds no link).
Cell(stat, text, link) == [stat |-> stat, text |-> text, link |-> link]

\* A table row: its class attribute ("thead" on a header row) and its cells
\* in order.  Row data is a sequence of rows.
Row(class, cells) == [class |-> class, cells |-> cells]

\* the cells of row data in document order
RECURSIVE Flatten(_)
Flatten(data) ==
    IF Len(data) = 0 THEN <<>> ELSE Head(data).cells \o Flatten(Tail(data))

\* nba PARSING_SCHEME: field name -> the data-stat its selector names
PARSING_SCHEME(field) ==
    CASE field = "name" -> "team_name"
      [] field = "games_played" -> "g"
      [] field = "field_goal_percentage" -> "fg_pct"
      [] field = "points" -> "pts"
      [] field = "opp_field_goal_percentage" -> "opp_fg_pct"
      [] field = "opp_points" -> "opp_pts"

\* utils._parse_field(PARSING_SCHEME, data, field): the text of the first
\* cell of the data the field's selector matches, None when none matches;
\* 'abbreviation' is extracted from the first team link's path.
_parse_field(data, field) ==
    LET cells == Flatten(data)
        hit(i) == IF field = "abbreviation"
                    THEN cells[i].stat = "team_name" /\ cells[i].link # <<>>
                    ELSE cells[i].stat = PARSING_SCHEME(field)
    IN  IF \A i \in 1..Len(cells) : ~hit(i) THEN None
        ELSE LET k == CHOOSE i \in 1..Len(cells) :
                          hit(i) /\ \A j \in 1..(i - 1) : ~hit(j)
             IN  StrV(IF field = "abbreviation"
                        THEN cells[k].link ELSE cells[k].text)

\* ----------------------------------------------------------------- Team

\* the attributes Team.__init__ declares (a representative of each kind:
\* identifiers, integer counts, percentages, own and opp_*)
TeamParsedFields ==
    {"abbreviation", "name", "games_played", "field_goal_percentage",
     "points", "opp_field_goal_percentage", "opp_points"}
TeamFields == {"year", "rank"} \cup TeamParsedFields

\* Team._parse_team_data: every attribute but _rank and _year is set from
\* the scheme
_parse_team_data(self, team_data) ==
    [f \in DOMAIN self |->
        IF f = "rank" \/ f = "year" THEN self[f]
        ELSE _parse_field(team_data, f)]

\* Team.__init__(team_data, rank, year)
Team(team_data, rank, year) ==
    _parse_team_data(
        [f \in TeamFields |->
            IF f = "year" THEN year ELSE IF f = "rank" THEN rank ELSE None],
        team_data)

\* Team's accessors
Team_rank(self) == int(self.rank)
Team_abbreviation(self) == self.abbreviation
Team_name(self) == self.name
Team_games_played(self) == int(self.games_played)
Team_field_goal_percentage(self) == float(self.field_goal_percentage)
Team_points(self) == int(self.points)
Team_opp_field_goal_percentage(self) == float(self.opp_field_goal_percentage)
Team_opp_points(self) == int(self.opp_points)

TeamAccessors ==
    {"rank", "abbreviation", "name", "games_played", "field_goal_percentage",
     "points", "opp_field_goal_percentage", "opp_points"}

\* reading the property named acc of a Team
TeamRead(self, acc) ==
    CASE acc = "rank" -> Team_rank(self)
      [] acc = "abbreviation" -> Team_abbreviation(self)
      [] acc = "name" -> Team_name(self)
      [] acc = "games_played" -> Team_games_played(self)
      [] acc = "field_goal_percentage" -> Team_field_goal_percentage(self)
      [] acc = "points" -> Team_points(self)
      [] acc = "opp_field_goal_percentage" ->
             Team_opp_field_goal_percentage(self)
      [] acc = "opp_points" -> Team_opp_points(self)

\* ---------------------------------------------------------------- Teams

\* team_data_dict is a dict in insertion order: a sequence of entries
\* [key, data, rank], the keys pairwise different.
DictHas(d, key) == \E i \in 1..Len(d) : d[i].key = key
DictIndex(d, key) == CHOOSE i \in 1..Len(d) : d[i].key = key

\* dict_add_row with '=' where the code has '+=': a later row of a team
\* replaces the rows gathered so far
dict_add_row_overwrite(d, abbr, team_data, rank) ==
    IF DictHas(d, abbr)
      THEN [d EXCEPT ![DictIndex(d, abbr)].data = <<team_data>>]
      ELSE Append(d, [key |-> abbr, data |-> <<team_data>>, rank |-> rank])

\* dict_add_row putting a new team in front of the ones already seen
dict_add_row_front(d, abbr, team_data, rank) ==
    IF DictHas(d, abbr)
      THEN [d EXCEPT ![DictIndex(d, abbr)].data = @ \o <<team_data>>]
      ELSE <<[key |-> abbr, data |-> <<team_data>>, rank |-> rank]>> \o d

\* dict_add_row that never finds the key: every row starts an entry
dict_add_row_no_merge(d, abbr, team_data, rank) ==
    Append(d, [key |-> abbr, data |-> <<team_data>>, rank |-> rank])

\* dict_add_row putting a later row of a team in front of its earlier rows
dict_add_row_prepend(d, abbr, team_data, rank) ==
    IF DictHas(d, abbr)
      THEN [d EXCEPT ![DictIndex(d, abbr)].data = <<team_data>> \o @]
      ELSE Append(d, [key |-> abbr, data |-> <<team_data>>, rank |-> rank])

\* the try / except KeyError of _add_stats_data: append the row to the
\* entry of abbr, or create the entry with the row and the current rank
dict_add_row(d, abbr, team_data, rank) ==
    IF DictHas(d, abbr)
      THEN [d EXCEPT ![DictIndex(d, abbr)].data = @ \o <<team_data>>]
      ELSE Append(d, [key |-> abbr, data |-> <<team_data>>, rank |-> rank])

RECURSIVE add_stats_rows(_, _, _)
\* the loop of _add_stats_data, from the row at the head of teams_list
add_stats_rows(teams_list, d, rank) ==
    IF Len(teams_list) = 0 THEN d
    ELSE LET team_data == Head(teams_list)
             abbr == _parse_field(<<team_data>>, "abbreviation")
         IN  add_stats_rows(Tail(teams_list),
                            dict_add_row(d, abbr, team_data, rank),
                            rank + 1)

\* _add_stats_data counting only the rows that start a new team
RECURSIVE add_stats_rows_newonly(_, _, _)
add_stats_rows_newonly(teams_list, d, rank) ==
    IF Len(teams_list) = 0 THEN d
    ELSE LET team_data == Head(teams_list)
             abbr == _parse_field(<<team_data>>, "abbreviation")
         IN  add_stats_rows_newonly(
                 Tail(teams_list),
                 dict_add_row(d, abbr, team_data, rank),
                 IF DictHas(d, abbr) THEN rank ELSE rank + 1)
_add_stats_data_newonly(teams_list, team_data_dict) ==
    add_stats_rows_newonly(teams_list, team_data_dict, 1)

\* Teams._add_stats_data(teams_list, team_data_dict); the first row is #1
_add_stats_data(teams_list, team_data_dict) ==
    add_stats_rows(teams_list, team_data_dict, 1)

\* team_data_dict of _retrieve_all_teams: both tables into one dict,
\* offense first
merge_tables(teams_list, opp_teams_list) ==
    _add_stats_data(opp_teams_list, _add_stats_data(teams_list, <<>>))

\* 'not year': None, the empty text, the empty list, 0 and 0.0 count as no
\* year
Falsy(x) ==
    \/ IsNone(x)
    \/ x.t \in {"str", "list"} /\ Len(x.v) = 0
    \/ IsInt(x) /\ x.v = 0
    \/ IsFloat(x) /\ x.v[1] = 0 /\ x.v[2] # 0

\* utils._find_year_for_season(league): the season's year the utility
\* finds, kept symbolic as a text that names the league asked for
_find_year_for_season(league) == StrV(<<"F", "O", "U", "N", "D", "-">> \o league)
nba == <<"n", "b", "a">>
nhl == <<"n", "h", "l">>

\* team_data_dict.values(): the entries in insertion order, the order a
\* dict keeps
dict_values(d) == d

\* Teams._retrieve_all_teams: a year that is not given is looked up; both
\* tables go into one dict, offense first; then one Team per dict value,
\* in the order values() yields them
_retrieve_all_teams(teams_list, opp_teams_list, year) ==
    LET y == IF Falsy(year) THEN _find_year_for_season(nba) ELSE year
        vals == dict_values(merge_tables(teams_list, opp_teams_list))
    IN  [i \in 1..Len(vals) |-> Team(vals[i].data, IntV(vals[i].rank), y)]

\* __getitem__ comparing the abbreviations as written, without upper()
Teams_getitem_exact(self, abbreviation) ==
    LET hit(i) == self[i].abbreviation = StrV(abbreviation)
    IN  IF \A i \in 1..Len(self) : ~hit(i) THEN Raise("ValueError")
        ELSE Obj(self[CHOOSE i \in 1..Len(self) :
                          hit(i) /\ \A j \in 1..(i - 1) : ~hit(j)])

\* Teams.__getitem__(abbreviation): the first team whose upper-cased
\* abbreviation equals the upper-cased key; ValueError when the loop ends.
\* (A team whose abbreviation is None stops the loop with AttributeError.)
Teams_getitem(self, abbreviation) ==
    LET stop(i) == IF IsStr(self[i].abbreviation)
                     THEN upper(self[i].abbreviation.v) = upper(abbreviation)
                     ELSE TRUE
    IN  IF \A i \in 1..Len(self) : ~stop(i) THEN Raise("ValueError")
        ELSE LET k == CHOOSE i \in 1..Len(self) :
                          stop(i) /\ \A j \in 1..(i - 1) : ~stop(j)
             IN  IF IsStr(self[k].abbreviation)
                   THEN Obj(self[k]) ELSE Raise("AttributeError")

\* a __call__ with a loop of its own that compares the abbreviations as
\* written
Teams_call_own_loop(self, abbreviation) ==
    LET hit(i) == self[i].abbreviation = StrV(abbreviation)
    IN  IF \A i \in 1..Len(self) : ~hit(i) THEN Raise("ValueError")
        ELSE Obj(self[CHOOSE i \in 1..Len(self) :
                          hit(i) /\ \A j \in 1..(i - 1) : ~hit(j)])

\* Teams.__call__ is a wrapper for __getitem__
Teams_call(self, abbreviation) == Teams_getitem(self, abbreviation)

\* a __len__ that is one short on a list of more than one record
Teams_len_short(self) ==
    IntV(IF Len(self) > 1 THEN Len(self) - 1 ELSE Len(self))

\* Teams.__repr__ returns the list; __iter__ iterates it; __len__ counts it
Teams_repr(self) == self
Teams_iter(self) == ListV(Teams_repr(self))
Teams_len(self) == IntV(Len(Teams_repr(self)))

\* ----------------------------------------------------------------- Game

\* the enumerated constants schedule.py imports
WIN == Const("WIN")
LOSS == Const("LOSS")
OVERTIME_LOSS == Const("OVERTIME_LOSS")
SHOOTOUT == Const("SHOOTOUT")
HOME == Const("HOME")
AWAY == Const("AWAY")
NEUTRAL == Const("NEUTRAL")

\* nhl SCHEDULE_SCHEME: field name -> the data-stat its selector names
SCHEDULE_SCHEME(field) ==
    CASE field = "date" -> "date_game"
      [] field = "time" -> "time_game"
      [] field = "location" -> "game_location"
      [] field = "opponent_name" -> "opp_name"
      [] field = "goals_scored" -> "goals"
      [] field = "result" -> "game_outcome"
      [] field = "overtime" -> "overtimes"
      [] field = "streak" -> "game_streak"
      [] field = "attendance" -> "attendance"
      [] field = "length_of_game" -> "game_duration"

\* game_data(selector + ':first'): index of the row's first cell with that
\* data-stat, 0 when there is none
FirstCell(game_data, stat) ==
    LET cells == game_data.cells
    IN  IF \A i \in 1..Len(cells) : cells[i].stat # stat THEN 0
        ELSE CHOOSE i \in 1..Len(cells) :
                 cells[i].stat = stat /\ \A j \in 1..(i - 1) : cells[j].stat # stat

\* utils.parse_field(SCHEDULE_SCHEME, game_data, field): the text of the
\* first cell the field's selector matches, None when none matches
parse_field(game_data, field) ==
    LET k == FirstCell(game_data, SCHEDULE_SCHEME(field))
    IN  IF k = 0 THEN None ELSE StrV(game_data.cells[k].text)

\* the markup of one cell: a link wrapped around its text when the cell
\* has one
CellMarkup(c) ==
    <<"<", "t", "d", ">">>
    \o (IF c.link = <<>> THEN c.text
        ELSE <<"<", "a", " ", "h", "r", "e", "f", "=", "\"">> \o c.link
             \o <<"\"", ">">> \o c.text \o <<"<", "/", "a", ">">>)
    \o <<"<", "/", "t", "d", ">">>

\* str() of a matched cell: its markup; '' when nothing matched
CellHtml(game_data, stat) ==
    LET k == FirstCell(game_data, stat)
    IN  IF k = 0 THEN <<>> ELSE CellMarkup(game_data.cells[k])

RECURSIVE CellsMarkup(_)
CellsMarkup(cells) ==
    IF Len(cells) = 0 THEN <<>>
    ELSE CellMarkup(Head(cells)) \o CellsMarkup(Tail(cells))

\* str() of a table row: its tag with the class attribute, then its cells
RowHtml(row) ==
    <<"<", "t", "r", " ", "c", "l", "a", "s", "s", "=", "\"">> \o row.class \o <<"\"", ">">>
    \o CellsMarkup(row.cells) \o <<"<", "/", "t", "r", ">">>

\* whether pat occurs in s at index i
OccursAt(s, pat, i) ==
    i + Len(pat) - 1 <= Len(s) /\ SubSeq(s, i, i + Len(pat) - 1) = pat

\* pat in s
Contains(s, pat) == \E i \in 1..Len(s) : OccursAt(s, pat, i)

\* the text that marks a header row
TheadMarker == <<"c", "l", "a", "s", "s", "=", "\"", "t", "h", "e", "a", "d", "\"">>

\* '.*' + pat on one line of text: the greedy match runs from the start of
\* the line through the last occurrence of pat, and is removed
RemoveThroughLastInLine(s, pat) ==
    IF \A i \in 1..Len(s) : ~OccursAt(s, pat, i) THEN s
    ELSE LET k == CHOOSE i \in 1..Len(s) :
                      OccursAt(s, pat, i)
                      /\ \A j \in (i + 1)..Len(s) : ~OccursAt(s, pat, j)
         IN  SubSeq(s, k + Len(pat), Len(s))

\* re.sub('.*' + pat, '', s) for a pat of one line: '.' does not match a
\* newline, so the substitution applies to every line of s on its own and
\* the newlines stay
RECURSIVE RemoveThroughLast(_, _)
RemoveThroughLast(s, pat) ==
    LET nl == FindChar(s, "\n")
    IN  IF nl = 0 THEN RemoveThroughLastInLine(s, pat)
        ELSE RemoveThroughLastInLine(SubSeq(s, 1, nl - 1), pat) \o <<"\n">>
             \o RemoveThroughLast(SubSeq(s, nl + 1, Len(s)), pat)

\* '/.*' on one line of text: everything from the first '/' is removed
RemoveFromFirstSlashInLine(s) ==
    IF FindChar(s, "/") = 0 THEN s ELSE SubSeq(s, 1, FindChar(s, "/") - 1)

\* re.sub('/.*', '', s): on every line of s, everything from the line's
\* first '/' to the end of the line is removed; the newlines stay
RECURSIVE RemoveFromFirstSlash(_)
RemoveFromFirstSlash(s) ==
    LET nl == FindChar(s, "\n")
    IN  IF nl = 0 THEN RemoveFromFirstSlashInLine(s)
        ELSE RemoveFromFirstSlashInLine(SubSeq(s, 1, nl - 1)) \o <<"\n">>
             \o RemoveFromFirstSlash(SubSeq(s, nl + 1, Len(s)))

\* Game._parse_abbreviation: the path segment after /teams/ of the opponent
\* cell's markup
_parse_abbreviation(game_data) ==
    StrV(RemoveFromFirstSlash(
             RemoveThroughLast(CellHtml(game_data, "opp_name"),
                               <<"/", "t", "e", "a", "m", "s", "/">>)))

\* Game._parse_boxscore: what follows /boxscores/ in the boxscore cell's
\* markup
_parse_boxscore(game_data) ==
    StrV(RemoveThroughLast(
             CellHtml(game_data, "box_score_text"),
             <<"/", "b", "o", "x", "s", "c", "o", "r", "e", "s", "/">>))

\* the attributes Game.__init__ declares (a representative of each kind)
GameFields ==
    {"date", "time", "boxscore", "location", "opponent_abbr", "opponent_name",
     "goals_scored", "result", "overtime", "streak", "attendance",
     "length_of_game"}

\* _parse_game_data without the opponent_abbr branch: the attribute gets
\* the text of the opponent cell like any scheme field
_parse_game_data_no_abbr_branch(self, game_data) ==
    [f \in DOMAIN self |->
        IF f = "opponent_abbr" THEN parse_field(game_data, "opponent_name")
        ELSE IF f = "boxscore" THEN _parse_boxscore(game_data)
        ELSE parse_field(game_data, f)]

\* Game._parse_game_data: opponent_abbr and boxscore by their special
\* extraction, every other attribute from the scheme
_parse_game_data(self, game_data) ==
    [f \in DOMAIN self |->
        IF f = "opponent_abbr" THEN _parse_abbreviation(game_data)
        ELSE IF f = "boxscore" THEN _parse_boxscore(game_data)
        ELSE parse_field(game_data, f)]

\* Game.__init__(game_data, year)
Game(game_data, year) ==
    _parse_game_data([f \in GameFields |-> None], game_data)

\* str(x) as '%s' formats a stored value: None prints as 'None'
str(x) == IF IsStr(x) THEN x.v ELSE <<"N", "o", "n", "e">>

IsLeap(y) == (y % 4 = 0 /\ y % 100 # 0) \/ y % 400 = 0
DaysIn(y, m) ==
    IF m = 2 THEN (IF IsLeap(y) THEN 29 ELSE 28)
    ELSE IF m \in {4, 6, 9, 11} THEN 30 ELSE 31

\* a datetime value: <<year, month, day, hour, minute>>
DateTime(y, m, d, H, M) == [t |-> "datetime", v |-> <<y, m, d, H, M>>]

\* one or two digits denoting a number of lo..hi, as %m %d %I %M read them
IsNum(s, lo, hi) ==
    Len(s) \in {1, 2} /\ AllDigits(s) /\ DigitsValue(s) \in lo..hi

\* index of the first character at or after i that is c, that \s matches,
\* that \s does not match; Len(s) + 1 when there is none
FindCharFrom(s, c, i) ==
    LET at == {j \in i..Len(s) : s[j] = c}
    IN  IF at = {} THEN Len(s) + 1 ELSE CHOOSE j \in at : \A k \in at : j <= k
FirstSpaceFrom(s, i) ==
    LET at == {j \in i..Len(s) : s[j] \in RegexSpace}
    IN  IF at = {} THEN Len(s) + 1 ELSE CHOOSE j \in at : \A k \in at : j <= k
FirstNonSpaceFrom(s, i) ==
    LET at == {j \in i..Len(s) : s[j] \notin RegexSpace}
    IN  IF at = {} THEN Len(s) + 1 ELSE CHOOSE j \in at : \A k \in at : j <= k

\* the day of the month as %d reads it: one or two digits, or a blank and
\* a digit
IsDay(s) ==
    \/ IsNum(s, 1, 31)
    \/ Len(s) = 2 /\ s[1] = " " /\ IsNum(<<s[2]>>, 1, 9)
DayValue(s) == IF s[1] = " " THEN DigitVal(s[2]) ELSE DigitsValue(s)

\* datetime.strptime(date_string, '%Y-%m-%d %I:%M %p'): the datetime the
\* text denotes, ValueError when the text does not match the format.  The
\* text is read from its start to its end: four digits of a year from 1
\* on, '-', a month, '-', a day, whitespace, an hour of 1..12, ':', a
\* minute, whitespace, and am or pm in any letter case.
strptime(date_string) ==
    LET s == date_string
        Y == Sub(s, 1, 4)
        h2 == FindCharFrom(s, "-", 6)
        m == Sub(s, 6, h2 - 1)
        padded == h2 + 1 <= Len(s) /\ s[h2 + 1] = " "
        w1 == IF padded THEN h2 + 3 ELSE FirstSpaceFrom(s, h2 + 1)
        d == Sub(s, h2 + 1, w1 - 1)
        t1 == FirstNonSpaceFrom(s, w1)
        co == FindCharFrom(s, ":", t1)
        I == Sub(s, t1, co - 1)
        w2 == FirstSpaceFrom(s, co + 1)
        M == Sub(s, co + 1, w2 - 1)
        t2 == FirstNonSpaceFrom(s, w2)
        p == lower(Sub(s, t2, Len(s)))
    IN  IF /\ Len(Y) = 4 /\ AllDigits(Y) /\ DigitsValue(Y) >= 1
           /\ Len(s) >= 5 /\ s[5] = "-"
           /\ IsNum(m, 1, 12) /\ IsDay(d)
           /\ DayValue(d) <= DaysIn(DigitsValue(Y), DigitsValue(m))
           /\ w1 <= Len(s) /\ s[w1] \in RegexSpace
           /\ IsNum(I, 1, 12) /\ IsNum(M, 0, 59)
           /\ w2 <= Len(s)
           /\ p \in {<<"a", "m">>, <<"p", "m">>}
          THEN DateTime(DigitsValue(Y), DigitsValue(m), DayValue(d),
                        (DigitsValue(I) % 12) + (IF p = <<"p", "m">> THEN 12 ELSE 0),
                        DigitsValue(M))
          ELSE Raise("ValueError")

\* Game's accessors
Game_date(self) == self.date
Game_time(self) == self.time
Game_datetime(self) == strptime(str(self.date) \o <<" ">> \o str(self.time))
\* a location that reports a neutral site for a venue marker 'N'
Game_location_neutral(self) ==
    IF Eq(self.location, StrV(<<"@">>)) THEN AWAY
    ELSE IF Eq(self.location, StrV(<<"N">>)) THEN NEUTRAL ELSE HOME
Game_location(self) ==
    IF Eq(self.location, StrV(<<"@">>)) THEN AWAY ELSE HOME
Game_opponent_abbr(self) == self.opponent_abbr
Game_opponent_name(self) == self.opponent_name
Game_goals_scored(self) == int(self.goals_scored)
Game_streak(self) == self.streak
Game_length_of_game(self) == self.length_of_game

\* Game.overtime comparing the text as written, without lower()
Game_overtime_as_written(self) ==
    IF ~IsStr(self.overtime) THEN Raise("AttributeError")
    ELSE LET o == self.overtime.v
             num == FirstDigitRun(o)
         IN  IF o = <<"o", "t">> THEN IntV(1)
             ELSE IF o = <<"s", "o">> THEN SHOOTOUT
             ELSE IF o = <<>> THEN IntV(0)
             ELSE IF Len(num) > 0 THEN int(StrV(num))
             ELSE IntV(0)

\* Game.overtime: 'ot' is 1, 'so' is SHOOTOUT, '' is 0, otherwise the first
\* run of digits, 0 when there is none; None has no lower()
Game_overtime(self) ==
    IF ~IsStr(self.overtime) THEN Raise("AttributeError")
    ELSE LET o == self.overtime.v
             num == FirstDigitRun(o)
         IN  IF lower(o) = <<"o", "t">> THEN IntV(1)
             ELSE IF lower(o) = <<"s", "o">> THEN SHOOTOUT
             ELSE IF o = <<>> THEN IntV(0)
             ELSE IF Len(num) > 0 THEN int(StrV(num))
             ELSE IntV(0)

\* Game.result that never looks at the overtime code
Game_result_no_overtime(self) ==
    IF ~IsStr(self.result) THEN Raise("AttributeError")
    ELSE IF lower(self.result.v) = <<"w">> THEN WIN
    ELSE LOSS

\* Game.result that tests for a loss with overtime before it tests for a
\* win, and takes any result but 'w' for a loss
Game_result_overtime_first(self) ==
    IF ~IsStr(self.result) THEN Raise("AttributeError")
    ELSE IF IsRaise(Game_overtime(self)) THEN Game_overtime(self)
    ELSE IF ~Eq(Game_overtime(self), IntV(0)) THEN OVERTIME_LOSS
    ELSE IF lower(self.result.v) = <<"w">> THEN WIN
    ELSE LOSS

\* Game.result: 'w' is WIN; 'l' with overtime != 0 is OVERTIME_LOSS (the
\* overtime property is read only then); anything else is LOSS
Game_result(self) ==
    IF ~IsStr(self.result) THEN Raise("AttributeError")
    ELSE IF lower(self.result.v) = <<"w">> THEN WIN
    ELSE IF lower(self.result.v) = <<"l">>
      THEN (IF IsRaise(Game_overtime(self)) THEN Game_overtime(self)
            ELSE IF ~Eq(Game_overtime(self), IntV(0)) THEN OVERTIME_LOSS
            ELSE LOSS)
    ELSE LOSS

\* Game.attendance: the commas are removed, then int(); None has no replace()
Game_attendance(self) ==
    IF ~IsStr(self.attendance) THEN Raise("AttributeError")
    ELSE int(StrV(RemoveChar(self.attendance.v, ",")))

GameAccessors ==
    {"date", "time", "datetime", "location", "opponent_abbr", "opponent_name",
     "goals_scored", "result", "overtime", "streak", "attendance",
     "length_of_game"}

\* reading the property named acc of a Game
GameRead(self, acc) ==
    CASE acc = "date" -> Game_date(self)
      [] acc = "time" -> Game_time(self)
      [] acc = "datetime" -> Game_datetime(self)
      [] acc = "location" -> Game_location(self)
      [] acc = "opponent_abbr" -> Game_opponent_abbr(self)
      [] acc = "opponent_name" -> Game_opponent_name(self)
      [] acc = "goals_scored" -> Game_goals_scored(self)
      [] acc = "result" -> Game_result(self)
      [] acc = "overtime" -> Game_overtime(self)
      [] acc = "streak" -> Game_streak(self)
      [] acc = "attendance" -> Game_attendance(self)
      [] acc = "length_of_game" -> Game_length_of_game(self)

\* -------------------------------------------------------------- Schedule

\* _pull_schedule without the header test: a Game for every row
RECURSIVE _pull_schedule_all(_, _)
_pull_schedule_all(schedule, year) ==
    IF Len(schedule) = 0 THEN <<>>
    ELSE <<Game(Head(schedule), year)>> \o _pull_schedule_all(Tail(schedule), year)

\* Schedule._pull_schedule: a year that is not given is looked up; one Game
\* per row whose markup does not contain class="thead", in table order
RECURSIVE _pull_schedule(_, _)
_pull_schedule(schedule, year) ==
    LET y == IF Falsy(year) THEN _find_year_for_season(nhl) ELSE year
    IN  IF Len(schedule) = 0 THEN <<>>
        ELSE IF Contains(RowHtml(Head(schedule)), TheadMarker)
          THEN _pull_schedule(Tail(schedule), y)
          ELSE <<Game(Head(schedule), y)>> \o _pull_schedule(Tail(schedule), y)

\* Schedule.__getitem__(index): list indexing, 0-based, negative from the end
Schedule_getitem(self, index) ==
    IF index >= 0 /\ index < Len(self) THEN Obj(self[index + 1])
    ELSE IF index < 0 /\ index >= 0 - Len(self) THEN Obj(self[Len(self) + index + 1])
    ELSE Raise("IndexError")

\* date.year, date.month, date.day of a datetime
SameDay(a, b) == a.v[1] = b.v[1] /\ a.v[2] = b.v[2] /\ a.v[3] = b.v[3]

\* __call__ comparing the whole datetime, time of day included
Schedule_call_exact(self, date) ==
    LET stop(i) == IF IsRaise(Game_datetime(self[i])) THEN TRUE
                   ELSE Game_datetime(self[i]).v = date.v
    IN  IF \A i \in 1..Len(self) : ~stop(i) THEN Raise("ValueError")
        ELSE LET k == CHOOSE i \in 1..Len(self) :
                          stop(i) /\ \A j \in 1..(i - 1) : ~stop(j)
             IN  IF IsRaise(Game_datetime(self[k]))
                   THEN Game_datetime(self[k]) ELSE Obj(self[k])

\* Schedule.__call__(date): the first game whose datetime has date's year,
\* month and day; ValueError when the loop ends.  A game whose date / time
\* text strptime rejects stops the loop with strptime's ValueError.
Schedule_call(self, date) ==
    LET stop(i) == IF IsRaise(Game_datetime(self[i])) THEN TRUE
                   ELSE SameDay(Game_datetime(self[i]), date)
    IN  IF \A i \in 1..Len(self) : ~stop(i) THEN Raise("ValueError")
        ELSE LET k == CHOOSE i \in 1..Len(self) :
                          stop(i) /\ \A j \in 1..(i - 1) : ~stop(j)
             IN  IF IsRaise(Game_datetime(self[k]))
                   THEN Game_datetime(self[k]) ELSE Obj(self[k])

Schedule_repr(self) == self
Schedule_iter(self) == ListV(Schedule_repr(self))
Schedule_len(self) == IntV(Len(Schedule_repr(self)))

\* ------------------------------------------------------------- inputs

\* bounds of the model: the longest table of either kind
MaxRows == 2
MaxGames == 3

\* marks a cell the row does not carry (its field parses to None)
Missing == <<"(missing)">>

OptCell(stat, text) ==
    IF text = Missing THEN <<>> ELSE <<Cell(stat, text, <<>>)>>

\* a row of the offense table (div#all_team-stats-base)
OffRow(abbr, name, g, fg_pct, pts) ==
    Row(<<"f", "u", "l", "l", "_", "t", "a", "b", "l", "e">>,
        <<Cell("team_name", name, abbr)>> \o OptCell("g", g)
        \o OptCell("fg_pct", fg_pct) \o OptCell("pts", pts))

\* a row of the opponent table (div#all_opponent-stats-base)
OppRow(abbr, name, g, opp_fg_pct, opp_pts) ==
    Row(<<"f", "u", "l", "l", "_", "t", "a", "b", "l", "e">>,
        <<Cell("team_name", name, abbr)>> \o OptCell("g", g)
        \o OptCell("opp_fg_pct", opp_fg_pct) \o OptCell("opp_pts", opp_pts))

DET == <<"D", "E", "T">>
Detroit == <<"D", "e", "t", "r", "o", "i", "t">>
det == <<"d", "e", "t">>
BOS == <<"B", "O", "S">>
\* the link of a team cell that holds text only
NoLink == <<>>
Nolink == <<"N", "o", "l", "i", "n", "k">>

OffRows ==
    {OffRow(DET, Detroit, <<"8", "2">>, <<".", "4", "5", "3">>, <<"8", "5", "0", "0">>),
     OffRow(BOS, <<"B", "o", "s", "t", "o", "n">>, <<"8", "1">>, <<".", "4", "7", "0">>, <<"8", "7", "0", "0">>),
     OffRow(det, <<"d", "e", "t", "r", "o", "i", "t">>, <<>>, <<"4", "5", ".", "3">>, Missing),
     OffRow(NoLink, Nolink, <<"8", "0">>, <<".", "4", "4", "0">>, <<"8", "1", "0", "0">>)}

OppRows ==
    {OppRow(DET, Detroit, <<"8", "2">>, <<".", "4", "6", "1">>, <<"8", "6", "0", "0">>),
     OppRow(BOS, <<"B", "o", "s", "t", "o", "n">>, <<"8", "1">>, <<".", "4", "4", "9">>, <<"8", "3", "0", "0">>),
     OppRow(det, <<"d", "e", "t", "r", "o", "i", "t">>, <<>>, <<"1", ".", "5">>, Missing),
     OppRow(NoLink, Nolink, <<"8", "0">>, <<".", "4", "5", "5">>, <<"8", "2", "0", "0">>)}

\* raw texts of an integer cell and of a percentage cell, well formed and not
RawInts ==
    {<<"8", "2">>,
     <<"0", "8", "2">>,
     <<"0">>,
     <<"-", "3">>,
     <<"+", "5">>,
     <<>>,
     <<"a", "b", "c">>,
     <<"8", "x">>,
     <<"1", ",", "2", "3", "4">>,
     <<"1", "2", ".", "5">>,
     <<VT, "8", "2">>,
     <<"8", "2", US>>,
     Missing}
RawPcts ==
    {<<".", "4", "5", "3">>,
     <<"0", ".", "5">>,
     <<"1", ".", "0", "0", "0">>,
     <<"1">>,
     <<"0">>,
     <<"1", ".", "5">>,
     <<"4", "5", ".", "3">>,
     <<>>,
     <<"x">>,
     <<".", "5", ".">>,
     <<VT, ".", "5", "\t">>,
     Missing}

WideOffRows ==
    {OffRow(DET, Detroit, g, pct, g) : g \in RawInts, pct \in RawPcts}
WideOppRows ==
    {OppRow(DET, Detroit, <<"8", "2">>, pct, pts) : pct \in RawPcts, pts \in RawInts}

SeqsUpTo(S, n) == UNION {[1..k -> S] : k \in 0..n}

\* the (offense table, opponent table) pairs a season page is drawn from
TeamsInputs ==
    (SeqsUpTo(OffRows, MaxRows) \X SeqsUpTo(OppRows, MaxRows))
    \cup {<<<<r>>, <<>>>> : r \in WideOffRows}
    \cup {<<<<>>, <<r>>>> : r \in WideOppRows}

\* the year a caller passes: a season, nothing (the default), or another
\* value that counts as no year
Season2018 == StrV(<<"2", "0", "1", "8">>)
Years == {Season2018, None, FloatV(0, 1), ListV(<<>>)}
\* the years a page of that many rows is asked for: the longer pages are
\* drawn for a given season only
YearsFor(rows) == IF rows <= 1 THEN Years ELSE {Season2018}

\* the rows a caller builds one Team from, and the ranks it gives: an int,
\* floats (1.5, -1.5), a digit text, nothing
TeamDatas ==
    {<<r>> : r \in OffRows} \cup {<<r, q>> : r \in OffRows, q \in OppRows}
Ranks == {IntV(3), FloatV(3, 2), FloatV(-3, 2), StrV(<<"7">>), None}

\* the abbreviations a caller looks up
Keys == {DET, det, <<"D", "e", "t">>, BOS, <<"L", "A", "L">>}

\* a cell with a link around its text; no link when the href is Missing
LinkCell(stat, text, href) ==
    IF text = Missing THEN <<>>
    ELSE <<Cell(stat, text, IF href = Missing THEN <<>> ELSE href)>>

\* a row of a team's schedule table (table#games)
GameRow(date, time, loc, opp, opp_href, goals, res, ot, streak, att, dur, box) ==
    Row(<<>>,
        OptCell("date_game", date) \o OptCell("time_game", time)
        \o LinkCell("box_score_text", <<"W">>, box)
        \o OptCell("game_location", loc)
        \o LinkCell("opp_name", opp, opp_href)
        \o OptCell("goals", goals) \o OptCell("game_outcome", res)
        \o OptCell("overtimes", ot) \o OptCell("game_streak", streak)
        \o OptCell("attendance", att) \o OptCell("game_duration", dur))

\* the header row the schedule table repeats
HeaderRow == Row(<<"t", "h", "e", "a", "d">>, <<Cell("date_game", <<"D", "a", "t", "e">>, <<>>)>>)

NYR_href == <<"/", "t", "e", "a", "m", "s", "/", "N", "Y", "R", "/">>
BoxA_href == <<"/", "b", "o", "x", "s", "c", "o", "r", "e", "s", "/", "A", ".", "h", "t", "m", "l">>
Oct05 == <<"2", "0", "1", "7", "-", "1", "0", "-", "0", "5">>
Oct07 == <<"2", "0", "1", "7", "-", "1", "0", "-", "0", "7">>
Oct08 == <<"2", "0", "1", "7", "-", "1", "0", "-", "0", "8">>
At == <<"@">>
Rangers == <<"R", "a", "n", "g", "e", "r", "s">>
Bruins == <<"B", "r", "u", "i", "n", "s">>

GameRows ==
    {GameRow(Oct05, <<"7", ":", "0", "0", " ", "P", "M">>, <<>>, Rangers, NYR_href,
             <<"4">>, <<"W">>, <<>>, <<"W", " ", "1">>, <<"1", "8", ",", "5", "3", "2">>, <<"2", ":", "3", "0">>, BoxA_href),
     GameRow(Oct05, <<"1", ":", "0", "0", " ", "p", "m">>, At, Bruins, Missing,
             <<"2">>, <<"L">>, <<"O", "T">>, <<"L", " ", "1">>, <<"1", "7", ",", "5", "6", "5">>, <<"2", ":", "4", "1">>, Missing),
     GameRow(Oct08, Missing, <<>>, Bruins, Missing,
             Missing, Missing, Missing, Missing, Missing, Missing, Missing),
     GameRow(Oct07, <<"7", ":", "0", "0", " ", "P", "M">>, <<>>, Rangers, NYR_href,
             <<"3">>, <<"W">>, <<>>, TheadMarker, <<"9", ",", "1", "0", "0">>, <<"2", ":", "2", "2">>, BoxA_href),
     HeaderRow}

RawResults ==
    {<<"W">>,
     <<"w">>,
     <<"L">>,
     <<"l">>,
     <<>>,
     <<"T">>,
     Missing}
RawOvertimes ==
    {<<"O", "T">>,
     <<"o", "t">>,
     <<"S", "O">>,
     <<"s", "o">>,
     <<>>,
     <<"2", "O", "T">>,
     <<"x">>,
     <<"0">>,
     <<"1", "0", "x", "3">>,
     <<"O", "t">>,
     <<"O", "T", "2">>,
     Missing}
\* raw texts of the venue marker cell
RawLocations ==
    {At,
     <<>>,
     <<"N">>,
     <<"@", "@">>,
     <<"a", "t">>,
     Missing}
\* raw texts of the time cell: the blank before am / pm as other characters
RawTimes ==
    {<<"7", ":", "0", "0", VT, "P", "M">>,
     <<"7", ":", "0", "0", US, "\n", "p", "m">>,
     <<"7", ":", "0", "0", "_", "P", "M">>}
\* raw texts of the opponent cell: on one line and on two
RawOpponents ==
    {Rangers,
     <<"R", "a", "n", "g", "\n", "e", "r", "s">>,
     <<"N", "Y", "/", "R", "\n", "a", "/", "b">>}
RawAttendances ==
    {<<"1", "8", ",", "5", "3", "2">>,
     <<"9", "1", "0", "0">>,
     <<>>,
     <<",">>,
     <<"a", "b", "c">>,
     Missing}

WideGameRows ==
    {GameRow(Oct05, <<"7", ":", "0", "0", " ", "P", "M">>, <<>>, Rangers, NYR_href,
             <<"4">>, r, o, <<"W", " ", "1">>, <<"1", "8", ",", "5", "3", "2">>, <<"2", ":", "3", "0">>, BoxA_href) :
        r \in RawResults, o \in RawOvertimes}
    \cup
    {GameRow(Oct05, <<"7", ":", "0", "0", " ", "P", "M">>, <<>>, Rangers, NYR_href,
             g, <<"W">>, <<>>, <<"W", " ", "1">>, a, <<"2", ":", "3", "0">>, BoxA_href) :
        g \in RawInts, a \in RawAttendances}
    \cup
    {GameRow(Oct05, <<"7", ":", "0", "0", " ", "P", "M">>, l, Rangers, NYR_href,
             <<"4">>, <<"L">>, <<"O", "T">>, <<"L", " ", "1">>, <<"1", "8", ",", "5", "3", "2">>, <<"2", ":", "3", "0">>, BoxA_href) :
        l \in RawLocations}
    \cup
    {GameRow(Oct05, t, <<>>, o, h,
             <<"4">>, <<"W">>, <<>>, <<"W", " ", "1">>, <<"1", "8", ",", "5", "3", "2">>, <<"2", ":", "3", "0">>, BoxA_href) :
        t \in RawTimes, o \in RawOpponents, h \in {NYR_href, Missing}}

\* the schedule tables a team's page is drawn from
ScheduleInputs ==
    SeqsUpTo(GameRows, MaxGames) \cup {<<r>> : r \in WideGameRows}

\* the datetimes a caller asks for
Dates ==
    {DateTime(2017, 10, 5, 0, 0), DateTime(2017, 10, 5, 19, 0),
     DateTime(2017, 10, 7, 12, 0), DateTime(2017, 10, 8, 19, 0),
     DateTime(2017, 10, 6, 19, 0)}

\* ------------------------------------------------------- state machine

VARIABLES
    pc,        \* "start", then "teams" (a Teams was built), "team" (a Team
               \* was built on its own) or "schedule"
    offense,   \* the page's offense table: a sequence of rows
    opponent,  \* the page's opponent table
    table,     \* the page's schedule table
    year_given, \* the year argument the constructor was called with
    rank_given, \* the rank argument a Team built on its own was given
    data_dict, \* team_data_dict of _retrieve_all_teams once both tables
               \* are merged: what each Team is built from
    teams,     \* Teams._teams: a sequence of Team records
    games,     \* Schedule._games: a sequence of Game records
    ret        \* the call that has returned and whose value the caller
               \* holds: [op, arg, val]; NoCall between calls

vars == <<pc, offense, opponent, table, year_given, rank_given, data_dict, teams, games, ret>>

Call(op, arg, val) == [op |-> op, arg |-> arg, val |-> val]
NoCall == Call("none", <<>>, None)

Init ==
    /\ pc = "start"
    /\ offense = <<>> /\ opponent = <<>> /\ table = <<>>
    /\ year_given = None
    /\ rank_given = None
    /\ data_dict = <<>>
    /\ teams = <<>> /\ games = <<>>
    /\ ret = NoCall

\* Teams.__init__(year): the page's two tables become self._teams
TeamsNew ==
    /\ pc = "start"
    /\ \E in \in TeamsInputs :
          \E year \in YearsFor(Len(in[1]) + Len(in[2])) :
              /\ offense' = in[1]
              /\ opponent' = in[2]
              /\ year_given' = year
              /\ data_dict' = dict_values(merge_tables(in[1], in[2]))
              /\ teams' = _retrieve_all_teams(in[1], in[2], year)
    /\ pc' = "teams"
    /\ ret' = NoCall
    /\ UNCHANGED <<table, rank_given, games>>

\* Team(team_data, rank, year): a caller builds one record itself, from the
\* rows of one team and a rank and a year of its choice
TeamNew ==
    /\ pc = "start"
    /\ \E team_data \in TeamDatas, rank \in Ranks, year \in Years :
          /\ offense' = team_data
          /\ rank_given' = rank
          /\ year_given' = year
          /\ teams' = <<Team(team_data, rank, year)>>
    /\ pc' = "team"
    /\ ret' = NoCall
    /\ UNCHANGED <<opponent, table, data_dict, games>>

\* teams[abbreviation]
TeamsGetItem ==
    /\ pc = "teams" /\ ret = NoCall
    /\ \E key \in Keys :
          ret' = Call("Teams.__getitem__", key, Teams_getitem(teams, key))
    /\ UNCHANGED <<pc, offense, opponent, table, year_given, rank_given, data_dict, teams, games>>

\* teams(abbreviation)
TeamsCall ==
    /\ pc = "teams" /\ ret = NoCall
    /\ \E key \in Keys :
          ret' = Call("Teams.__call__", key, Teams_call(teams, key))
    /\ UNCHANGED <<pc, offense, opponent, table, year_given, rank_given, data_dict, teams, games>>

\* an iteration that consumes the list it walks
TeamsIterConsuming ==
    /\ pc = "teams" /\ ret = NoCall
    /\ ret' = Call("Teams.__iter__", <<>>, Teams_iter(teams))
    /\ teams' = <<>>
    /\ UNCHANGED <<pc, offense, opponent, table, year_given, rank_given, data_dict, games>>

\* list(teams): everything one iteration yields
TeamsIter ==
    /\ pc = "teams" /\ ret = NoCall
    /\ ret' = Call("Teams.__iter__", <<>>, Teams_iter(teams))
    /\ UNCHANGED <<pc, offense, opponent, table, year_given, rank_given, data_dict, teams, games>>

\* len(teams)
TeamsLen ==
    /\ pc = "teams" /\ ret = NoCall
    /\ ret' = Call("Teams.__len__", <<>>, Teams_len(teams))
    /\ UNCHANGED <<pc, offense, opponent, table, year_given, rank_given, data_dict, teams, games>>

\* reading one property of one record of the container, or of the record
\* built on its own
TeamAccess ==
    /\ pc \in {"teams", "team"} /\ ret = NoCall
    /\ \E i \in 1..Len(teams), acc \in TeamAccessors :
          ret' = Call("Team", <<i, acc>>, TeamRead(teams[i], acc))
    /\ UNCHANGED <<pc, offense, opponent, table, year_given, rank_given, data_dict, teams, games>>

\* Schedule.__init__(abbreviation, year): the page's table becomes self._games
ScheduleNew ==
    /\ pc = "start"
    /\ \E in \in ScheduleInputs : \E year \in YearsFor(Len(in)) :
          /\ table' = in
          /\ year_given' = year
          /\ games' = _pull_schedule(in, year)
    /\ pc' = "schedule"
    /\ ret' = NoCall
    /\ UNCHANGED <<offense, opponent, rank_given, data_dict, teams>>

\* schedule[index]
ScheduleGetItem ==
    /\ pc = "schedule" /\ ret = NoCall
    /\ \E index \in (0 - MaxGames - 1)..MaxGames :
          ret' = Call("Schedule.__getitem__", index,
                      Schedule_getitem(games, index))
    /\ UNCHANGED <<pc, offense, opponent, table, year_given, rank_given, data_dict, teams, games>>

\* schedule(date)
ScheduleCall ==
    /\ pc = "schedule" /\ ret = NoCall
    /\ \E date \in Dates :
          ret' = Call("Schedule.__call__", date, Schedule_call(games, date))
    /\ UNCHANGED <<pc, offense, opponent, table, year_given, rank_given, data_dict, teams, games>>

\* list(schedule)
ScheduleIter ==
    /\ pc = "schedule" /\ ret = NoCall
    /\ ret' = Call("Schedule.__iter__", <<>>, Schedule_iter(games))
    /\ UNCHANGED <<pc, offense, opponent, table, year_given, rank_given, data_dict, teams, games>>

\* len(schedule)
ScheduleLen ==
    /\ pc = "schedule" /\ ret = NoCall
    /\ ret' = Call("Schedule.__len__", <<>>, Schedule_len(games))
    /\ UNCHANGED <<pc, offense, opponent, table, year_given, rank_given, data_dict, teams, games>>

\* reading one property of one game of the schedule
GameAccess ==
    /\ pc = "schedule" /\ ret = NoCall
    /\ \E i \in 1..Len(games), acc \in GameAccessors :
          ret' = Call("Game", <<i, acc>>, GameRead(games[i], acc))
    /\ UNCHANGED <<pc, offense, opponent, table, year_given, rank_given, data_dict, teams, games>>

\* the caller is done with the returned value; the next call can start
Return ==
    /\ ret # NoCall
    /\ ret' = NoCall
    /\ UNCHANGED <<pc, offense, opponent, table, year_given, rank_given, data_dict, teams, games>>

Next ==
    \/ TeamsNew \/ TeamNew \/ TeamsGetItem \/ TeamsCall \/ TeamsIter \/ TeamsLen
    \/ TeamAccess
    \/ ScheduleNew \/ ScheduleGetItem \/ ScheduleCall \/ ScheduleIter
    \/ ScheduleLen \/ GameAccess
    \/ Return

Spec == Init /\ [][Next]_vars

\* ================================================================ claims

\* the abbreviation a table row's team link carries; NoLink (the empty
\* text) for a row whose team cell holds no link, whose abbreviation parses
\* to None and which the merge keys by None
RowAbbr(row) == row.cells[1].link
\* a parsed abbreviation as the rows carry it: its text, NoLink for None
AbbrOf(x) == IF IsStr(x) THEN x.v ELSE NoLink
RowsOf(tbl, a) == {i \in 1..Len(tbl) : RowAbbr(tbl[i]) = a}
AbbrsOf(tbl) == {RowAbbr(tbl[i]) : i \in 1..Len(tbl)}
AllAbbrs == AbbrsOf(offense) \cup AbbrsOf(opponent)
Min(S) == CHOOSE x \in S : \A y \in S : x <= y
\* 1-based position of the first row of tbl that carries abbreviation a
FirstRow(tbl, a) == Min(RowsOf(tbl, a))
\* the text of the row's cell named stat, None when the row has no such cell
CellOf(row, stat) ==
    IF \E i \in 1..Len(row.cells) : row.cells[i].stat = stat
      THEN StrV(row.cells[CHOOSE i \in 1..Len(row.cells) :
                              row.cells[i].stat = stat].text)
      ELSE None
\* the records of the container whose abbreviation is a
TeamsOf(a) == {i \in 1..Len(teams) : AbbrOf(teams[i].abbreviation) = a}

\* every abbreviation has exactly one row in each of the two tables
OneRowInEachTable ==
    \A a \in AllAbbrs :
        Cardinality(RowsOf(offense, a)) = 1 /\ Cardinality(RowsOf(opponent, a)) = 1

\* C1: when every abbreviation has one row in the offense table and one in
\* the opponent table, the built container holds exactly one Team per
\* distinct abbreviation, and that Team's own-stat fields carry the cells of
\* its offense row and its opp_* fields the cells of its opponent row.
C1_OneRecordPerTeamBothTables ==
    (pc = "teams" /\ OneRowInEachTable) =>
        /\ Len(teams) = Cardinality(AllAbbrs)
        /\ \A a \in AllAbbrs : Cardinality(TeamsOf(a)) = 1
        /\ \A i \in 1..Len(teams) :
              LET a == teams[i].abbreviation.v
                  off == offense[FirstRow(offense, a)]
                  opp == opponent[FirstRow(opponent, a)]
              IN  /\ a \in AllAbbrs
                  /\ teams[i].name = CellOf(off, "team_name")
                  /\ teams[i].games_played = CellOf(off, "g")
                  /\ teams[i].field_goal_percentage = CellOf(off, "fg_pct")
                  /\ teams[i].points = CellOf(off, "pts")
                  /\ teams[i].opp_field_goal_percentage = CellOf(opp, "opp_fg_pct")
                  /\ teams[i].opp_points = CellOf(opp, "opp_pts")

\* two teams, each with a row in both tables, one of them with its own and
\* its opponent statistics both populated
C1_Witness ==
    /\ pc = "teams" /\ OneRowInEachTable /\ Len(teams) = 2
    /\ \E i \in 1..Len(teams) :
          /\ IsStr(teams[i].points) /\ IsStr(teams[i].field_goal_percentage)
          /\ IsStr(teams[i].opp_points)
          /\ IsStr(teams[i].opp_field_goal_percentage)

\* C2 as stated: every Team's rank is the position of the first row of
\* its abbreviation in the offense table.
C2_RankIsOffenseOrder ==
    pc = "teams" =>
        \A i \in 1..Len(teams) :
            LET a == teams[i].abbreviation.v
            IN  /\ a \in AbbrsOf(offense)
                /\ Eq(Team_rank(teams[i]), IntV(FirstRow(offense, a)))

\* C2 (amended): a Team's rank is the 1-based row position of the first row
\* carrying its abbreviation in the first table, offense then opponent, that
\* has such a row: the offense table's row position for every team the
\* offense table lists, the opponent table's for a team only it lists.
C2_RankIsFirstRowPosition ==
    pc = "teams" =>
        \A i \in 1..Len(teams) :
            LET a == teams[i].abbreviation.v
            IN  Eq(Team_rank(teams[i]),
                   IntV(IF a \in AbbrsOf(offense)
                          THEN FirstRow(offense, a)
                          ELSE FirstRow(opponent, a)))

\* a team second in the offense table behind a team listed twice, and a team
\* that only the opponent table lists
C2_Witness ==
    /\ pc = "teams"
    /\ \E i \in 1..Len(teams) :
          /\ teams[i].abbreviation.v \in AbbrsOf(offense)
          /\ Eq(Team_rank(teams[i]), IntV(2))
    /\ \E i \in 1..Len(teams) : teams[i].abbreviation.v \notin AbbrsOf(offense)

\* the records a key matches as written, and ignoring letter case
ExactMatches(key) ==
    {i \in 1..Len(teams) : Eq(teams[i].abbreviation, StrV(key))}
CaselessMatches(key) ==
    {i \in 1..Len(teams) : /\ IsStr(teams[i].abbreviation)
                           /\ upper(teams[i].abbreviation.v) = upper(key)}
\* the records without an abbreviation (built from rows without a team link)
NoAbbr == {i \in 1..Len(teams) : IsNone(teams[i].abbreviation)}

\* C3 as stated: the lookup fails with ValueError when no record has the
\* requested abbreviation, and otherwise returns the record whose
\* abbreviation equals the key.
C3_LookupByEqualKey ==
    ret.op = "Teams.__getitem__" =>
        IF ExactMatches(ret.arg) = {}
          THEN Eq(ret.val, Raise("ValueError"))
          ELSE ret.val.t = "obj" /\ ret.val.v.abbreviation.v = ret.arg

\* C3 (amended): the lookup walks the records in container order and
\* compares abbreviations ignoring letter case (both sides upper-cased).  It
\* returns the first record that matches the key so compared, provided
\* every record before it has an abbreviation; it fails with AttributeError
\* when it reaches a record without an abbreviation first, whether or not a
\* later record matches; and it fails with ValueError when every record has
\* an abbreviation and none matches.
C3_LookupIgnoringCase ==
    ret.op = "Teams.__getitem__" =>
        LET stops == NoAbbr \cup CaselessMatches(ret.arg)
        IN  IF stops = {} THEN Eq(ret.val, Raise("ValueError"))
            ELSE IF Min(stops) \in NoAbbr
              THEN Eq(ret.val, Raise("AttributeError"))
              ELSE Eq(ret.val, Obj(teams[Min(stops)]))

\* a lookup that returned a record whose abbreviation is written in another
\* case than the key, in a container where a later record has no
\* abbreviation
C3_Witness ==
    /\ ret.op = "Teams.__getitem__" /\ ret.val.t = "obj"
    /\ ~Eq(ret.val.v.abbreviation, StrV(ret.arg))
    /\ NoAbbr # {} /\ Min(CaselessMatches(ret.arg)) < Min(NoAbbr)

\* a lookup that met a record without an abbreviation before the record
\* that matches the key, and failed with AttributeError
C3_StoppedWitness ==
    /\ ret.op = "Teams.__getitem__" /\ Eq(ret.val, Raise("AttributeError"))
    /\ ExactMatches(ret.arg) # {} /\ Min(NoAbbr) < Min(ExactMatches(ret.arg))

\* the <<year, month, day>> a date text 'YYYY-MM-DD' denotes, <<>> when the
\* stored date is not such a text
DayOf(date) ==
    IF IsStr(date) /\ Len(date.v) = 10 /\ date.v[5] = "-" /\ date.v[8] = "-"
       /\ AllDigits(SubSeq(date.v, 1, 4)) /\ AllDigits(SubSeq(date.v, 6, 7))
       /\ AllDigits(SubSeq(date.v, 9, 10))
      THEN <<DigitsValue(SubSeq(date.v, 1, 4)), DigitsValue(SubSeq(date.v, 6, 7)),
             DigitsValue(SubSeq(date.v, 9, 10))>>
      ELSE <<>>
\* the games whose date is the requested day
OnDay(date) ==
    {i \in 1..Len(games) : DayOf(games[i].date) = SubSeq(date.v, 1, 3)}
\* the games whose date and time text strptime rejects
Unparsable == {i \in 1..Len(games) : IsRaise(Game_datetime(games[i]))}

\* C4 as stated: schedule(date) returns the first game, in schedule order,
\* whose date is the requested day, whatever the times of day, and fails
\* with ValueError when no game is on that day.
C4_FirstGameOfTheDay ==
    ret.op = "Schedule.__call__" =>
        IF OnDay(ret.arg) = {}
          THEN Eq(ret.val, Raise("ValueError"))
          ELSE Eq(ret.val, Obj(games[Min(OnDay(ret.arg))]))

\* C4 (amended): schedule(date) walks the games in schedule order and parses
\* each one's date and time text; it returns the first game whose parsed
\* datetime has the requested year, month and day, whatever the times of
\* day, provided the date and time text of that game and of every game
\* before it parses; when it reaches a game whose text does not parse
\* first, or no game is on that day, it fails with ValueError.
C4_FirstParsedGameOfTheDay ==
    ret.op = "Schedule.__call__" =>
        LET stops == Unparsable \cup OnDay(ret.arg)
        IN  IF stops = {} \/ Min(stops) \in Unparsable
              THEN Eq(ret.val, Raise("ValueError"))
              ELSE Eq(ret.val, Obj(games[Min(stops)]))

\* two games on the requested day, at times of day that both differ from
\* the requested one: the first is returned
C4_Witness ==
    /\ ret.op = "Schedule.__call__" /\ Len(games) = 2
    /\ OnDay(ret.arg) = {1, 2} /\ Unparsable = {}
    /\ Eq(ret.val, Obj(games[1]))
    /\ Game_datetime(games[1]).v # ret.arg.v
    /\ Game_datetime(games[2]).v # Game_datetime(games[1]).v

\* the game a Game access read, and the team a Team access read
ReadGame == games[ret.arg[1]]
ReadTeam == teams[ret.arg[1]]
ReadOf(op, acc) == ret.op = op /\ ret.arg[2] = acc

\* C5: reading result gives WIN for raw "W", OVERTIME_LOSS for raw "L" with
\* a nonzero overtime code (the value of the overtime accessor), and LOSS
\* for raw "L" with a zero overtime code.
C5_ResultDerivation ==
    ReadOf("Game", "result") =>
        /\ Eq(ReadGame.result, StrV(<<"W">>)) => Eq(ret.val, WIN)
        /\ (Eq(ReadGame.result, StrV(<<"L">>))
              /\ ~IsRaise(Game_overtime(ReadGame))) =>
                  IF Eq(Game_overtime(ReadGame), IntV(0))
                    THEN Eq(ret.val, LOSS)
                    ELSE Eq(ret.val, OVERTIME_LOSS)

\* a loss whose overtime text is a shootout was read as OVERTIME_LOSS
C5_Witness ==
    /\ ReadOf("Game", "result")
    /\ Eq(ReadGame.result, StrV(<<"L">>))
    /\ Eq(ReadGame.overtime, StrV(<<"S", "O">>))
    /\ Eq(ret.val, OVERTIME_LOSS)

PercentageAccessors == {"field_goal_percentage", "opp_field_goal_percentage"}
InUnitRange(x) == 0 <= x.v[1] /\ x.v[1] <= x.v[2]

\* C6: a value a percentage accessor decodes lies in [0,1].
C6_PercentageInUnitRange ==
    (ret.op = "Team" /\ ret.arg[2] \in PercentageAccessors /\ IsFloat(ret.val))
        => InUnitRange(ret.val)

Letters == {UpperCase[i] : i \in 1..26} \cup {LowerCase[i] : i \in 1..26}
\* a raw value that is absent, empty, or text with a letter or no digit
Malformed(x) ==
    \/ IsNone(x)
    \/ /\ IsStr(x)
       /\ \/ \A i \in 1..Len(x.v) : x.v[i] \notin Digits
          \/ \E i \in 1..Len(x.v) : x.v[i] \in Letters
CoercionErrors == {"TypeError", "ValueError", "AttributeError"}

\* C7: reading an integer accessor whose raw value is absent, empty or
\* non-numeric raises (TypeError or ValueError from int(), AttributeError
\* from the text method attendance calls first); it never returns a value.
C7_MalformedIntegerRaises ==
    /\ (ret.op = "Team" /\ ret.arg[2] \in {"games_played", "points", "opp_points"}
          /\ Malformed(ReadTeam[ret.arg[2]]))
         => (IsRaise(ret.val) /\ ret.val.v \in CoercionErrors)
    /\ (ret.op = "Game" /\ ret.arg[2] \in {"goals_scored", "attendance"}
          /\ Malformed(ReadGame[ret.arg[2]]))
         => (IsRaise(ret.val) /\ ret.val.v \in CoercionErrors)

\* games_played was read from an empty cell and raised ValueError
C7_Witness ==
    /\ ReadOf("Team", "games_played")
    /\ Eq(ReadTeam.games_played, StrV(<<>>))
    /\ Eq(ret.val, Raise("ValueError"))

DigitChar(d) == CHOOSE c \in Digits : DigitVal(c) = d
RECURSIVE ToDigits(_)
\* the decimal digits of a natural number, without leading zeros
ToDigits(n) ==
    IF n < 10 THEN <<DigitChar(n)>>
    ELSE ToDigits(n \div 10) \o <<DigitChar(n % 10)>>
RECURSIVE StripZeros(_)
\* a digit string without its leading zeros (the last digit stays)
StripZeros(s) ==
    IF Len(s) > 1 /\ s[1] = "0" THEN StripZeros(Tail(s)) ELSE s
IsDigitString(x) == IsStr(x) /\ Len(x.v) > 0 /\ AllDigits(x.v)

\* C8: a string accessor returns the stored cell text as it is, and an
\* integer accessor of a stored digit string returns the integer whose
\* decimal digits are that string (leading zeros apart).
C8_RoundTrip ==
    /\ (ret.op = "Team" /\ ret.arg[2] \in {"abbreviation", "name"})
         => Eq(ret.val, ReadTeam[ret.arg[2]])
    /\ (ret.op = "Game" /\ ret.arg[2] \in {"date", "time", "streak",
                                            "length_of_game", "opponent_name"})
         => Eq(ret.val, ReadGame[ret.arg[2]])
    /\ (ret.op = "Team" /\ ret.arg[2] \in {"games_played", "points", "opp_points"}
          /\ IsDigitString(ReadTeam[ret.arg[2]]))
         => /\ IsInt(ret.val) /\ ret.val.v >= 0
            /\ ToDigits(ret.val.v) = StripZeros(ReadTeam[ret.arg[2]].v)
    /\ (ret.op = "Game" /\ ret.arg[2] \in {"goals_scored", "attendance"}
          /\ IsDigitString(ReadGame[ret.arg[2]]))
         => /\ IsInt(ret.val) /\ ret.val.v >= 0
            /\ ToDigits(ret.val.v) = StripZeros(ReadGame[ret.arg[2]].v)

\* games_played was read from the cell text 082 as the integer 82
C8_Witness ==
    /\ ReadOf("Team", "games_played")
    /\ Eq(ReadTeam.games_played, StrV(<<"0", "8", "2">>))
    /\ Eq(ret.val, IntV(82))

\* C9: once a container is built, no accessor read, lookup (successful or
\* failing), iteration or length query changes the records of a container
\* or their order.
C9_ReadOnly ==
    [][pc # "start" => (teams' = teams /\ games' = games)]_vars

\* a failed lookup has returned on a container of two records
C9_Witness ==
    /\ pc = "teams" /\ Len(teams) = 2
    /\ ret.op = "Teams.__getitem__" /\ IsRaise(ret.val)

\* where an abbreviation is first seen: offense rows come before opponent rows
FirstSeen(a) ==
    IF a \in AbbrsOf(offense) THEN FirstRow(offense, a)
    ELSE Len(offense) + FirstRow(opponent, a)
\* its place among the distinct abbreviations in order of first appearance
PlaceOf(a) == 1 + Cardinality({b \in AllAbbrs : FirstSeen(b) < FirstSeen(a)})

\* C10: iteration yields one record per distinct abbreviation of
\* the two tables, in order of first appearance (offense rows, then
\* opponent rows), and len() is the number of records iteration yields.
C10_OrderedCollection ==
    /\ ret.op = "Teams.__iter__" =>
          /\ Len(ret.val.v) = Cardinality(AllAbbrs)
          /\ \A a \in AllAbbrs :
                AbbrOf(ret.val.v[PlaceOf(a)].abbreviation) = a
          /\ Eq(Teams_len(teams), IntV(Len(ret.val.v)))
    /\ ret.op = "Teams.__len__" =>
          /\ Eq(ret.val, IntV(Cardinality(AllAbbrs)))
          /\ ret.val.v = Len(Teams_iter(teams).v)

\* an iteration over three teams from four rows: two the offense table
\* lists, then one that only the opponent table lists, its second row
C10_Witness ==
    /\ ret.op = "Teams.__iter__" /\ Len(ret.val.v) = 3
    /\ Len(offense) = 2 /\ Len(opponent) = 2
    /\ AbbrOf(ret.val.v[3].abbreviation) \notin AbbrsOf(offense)
    /\ AbbrOf(ret.val.v[3].abbreviation) = RowAbbr(opponent[2])
    /\ AbbrOf(ret.val.v[1].abbreviation) = RowAbbr(opponent[1])

\* the records whose abbreviation differs from the key in letter case only
CaseVariants(key) == CaselessMatches(key) \ ExactMatches(key)
\* what a keyed lookup of either form gave
IsLookup == ret.op \in {"Teams.__getitem__", "Teams.__call__"}

\* C11 as stated: teams(key) gives what teams[key] gives, and a lookup by a
\* key that differs from a stored abbreviation in letter case only returns
\* the record that stores that abbreviation.
C11_CallIsGetItemAndCaseVariantFound ==
    /\ ret.op = "Teams.__call__" => Eq(ret.val, Teams_getitem(teams, ret.arg))
    /\ IsLookup =>
          \A i \in CaseVariants(ret.arg) : Eq(ret.val, Obj(teams[i]))

\* C11 (amended): teams(key) gives what teams[key] gives (the same record,
\* the same ValueError or the same AttributeError), and a lookup by a key
\* that differs from a stored abbreviation in letter case only returns the
\* first record, in container order, whose abbreviation equals the key
\* ignoring letter case, provided every record before that one has an
\* abbreviation; when a record without an abbreviation comes first, both
\* forms of the lookup fail with AttributeError.
C11_CallIsGetItemAndFirstCaselessFound ==
    /\ ret.op = "Teams.__call__" => Eq(ret.val, Teams_getitem(teams, ret.arg))
    /\ (IsLookup /\ CaseVariants(ret.arg) # {}) =>
          LET first == Min(CaselessMatches(ret.arg))
          IN  IF \E i \in NoAbbr : i < first
                THEN Eq(ret.val, Raise("AttributeError"))
                ELSE Eq(ret.val, Obj(teams[first]))

\* teams(key) returned the only record of two that matches the key, which
\* is written in another case than the record's abbreviation
C11_Witness ==
    /\ ret.op = "Teams.__call__" /\ Len(teams) = 2
    /\ CaseVariants(ret.arg) = {2} /\ CaselessMatches(ret.arg) = {2}
    /\ Eq(ret.val, Obj(teams[2]))

\* teams(key) failed with AttributeError on a record without an
\* abbreviation that comes before the record the key matches but for case
C11_StoppedWitness ==
    /\ ret.op = "Teams.__call__" /\ Len(teams) = 2
    /\ NoAbbr = {1} /\ CaseVariants(ret.arg) = {2}
    /\ Eq(ret.val, Raise("AttributeError"))

\* the rows of the schedule table that are not header rows, in table order
\* a header row: the text class="thead" occurs in its markup, in the tag
\* or in a cell
IsHeaderRow(r) ==
    \/ r.class = <<"t", "h", "e", "a", "d">>
    \/ \E i \in 1..Len(r.cells) : Contains(r.cells[i].text, TheadMarker)
NonHeaderRows == SelectSeq(table, LAMBDA r : ~IsHeaderRow(r))
\* game g carries the cell texts of row r
BuiltFromRow(g, r) ==
    /\ g.date = CellOf(r, "date_game") /\ g.time = CellOf(r, "time_game")
    /\ g.location = CellOf(r, "game_location")
    /\ g.opponent_name = CellOf(r, "opp_name")
    /\ g.goals_scored = CellOf(r, "goals")
    /\ g.result = CellOf(r, "game_outcome")

\* C12: the schedule holds one Game per row that is not a header row, in
\* table order: len(schedule) is the number of those rows and schedule[i],
\* i counted from 0, is the Game built from the i-th of them.
C12_OneGamePerNonHeaderRow ==
    pc = "schedule" =>
        /\ Len(games) = Len(NonHeaderRows)
        /\ ret.op = "Schedule.__len__" => Eq(ret.val, IntV(Len(NonHeaderRows)))
        /\ (ret.op = "Schedule.__getitem__"
              /\ ret.arg >= 0 /\ ret.arg < Len(NonHeaderRows)) =>
                /\ ret.val.t = "obj"
                /\ BuiltFromRow(ret.val.v, NonHeaderRows[ret.arg + 1])

\* schedule[1] was read from a table whose second row is a header row: it
\* is the game of the third row
C12_Witness ==
    /\ pc = "schedule" /\ Len(table) = 3
    /\ ~IsHeaderRow(table[1]) /\ IsHeaderRow(table[2])
    /\ ~IsHeaderRow(table[3]) /\ table[3] # table[1]
    /\ ret.op = "Schedule.__getitem__" /\ ret.arg = 1
    /\ ret.val.t = "obj" /\ BuiltFromRow(ret.val.v, table[3])

\* the rows of a table that carry abbreviation a, in table order
RowsCarrying(tbl, a) == SelectSeq(tbl, LAMBDA r : RowAbbr(r) = a)
\* the entries of the merged dictionary whose key is abbreviation a
EntriesOf(a) == {i \in 1..Len(data_dict) : AbbrOf(data_dict[i].key) = a}

\* C13: the data a team's record is built from is the concatenation, in
\* processing order, of every row that carries the team's abbreviation: its
\* offense rows, then its opponent rows; every abbreviation of the tables
\* has its entry, and no entry holds a row of another abbreviation.
C13_DataIsAllRowsOfTheTeam ==
    pc = "teams" =>
        /\ \A a \in AllAbbrs : Cardinality(EntriesOf(a)) = 1
        /\ Len(teams) = Len(data_dict)
        /\ \A i \in 1..Len(data_dict) :
              LET a == AbbrOf(data_dict[i].key)
              IN  /\ data_dict[i].data
                       = RowsCarrying(offense, a) \o RowsCarrying(opponent, a)
                  /\ AbbrOf(teams[i].abbreviation) = a

\* a team with two offense rows and an opponent row, next to another team:
\* its data holds the three rows
C13_Witness ==
    /\ pc = "teams" /\ Len(data_dict) = 2
    /\ \E i \in 1..Len(data_dict) :
          /\ Len(data_dict[i].data) = 3
          /\ Len(RowsCarrying(offense, data_dict[i].key.v)) = 2
          /\ data_dict[i].data[3] \in OppRows

HasDigit(s) == \E i \in 1..Len(s) : s[i] \in Digits
\* the first maximal run of digits of a text that has a digit
LeadingRun(s) ==
    LET a == Min({i \in 1..Len(s) : s[i] \in Digits})
        b == Min({j \in a..Len(s) : j = Len(s) \/ s[j + 1] \notin Digits})
    IN  SubSeq(s, a, b)

\* C14: reading overtime gives 1 for the text OT in any letter case,
\* SHOOTOUT for SO in any letter case, 0 for the empty text, the integer the
\* first run of digits denotes for a text with digits, and 0 for any other
\* text.
C14_OvertimeCode ==
    (ReadOf("Game", "overtime") /\ IsStr(ReadGame.overtime)) =>
        LET o == ReadGame.overtime.v
        IN  IF o \in {<<"O", "T">>, <<"o", "t">>, <<"O", "t">>, <<"o", "T">>}
              THEN Eq(ret.val, IntV(1))
            ELSE IF o \in {<<"S", "O">>, <<"s", "o">>, <<"S", "o">>, <<"s", "O">>}
              THEN Eq(ret.val, SHOOTOUT)
            ELSE IF o = <<>> THEN Eq(ret.val, IntV(0))
            ELSE IF HasDigit(o)
              THEN /\ IsInt(ret.val) /\ ret.val.v >= 0
                   /\ ToDigits(ret.val.v) = StripZeros(LeadingRun(o))
            ELSE Eq(ret.val, IntV(0))

\* overtime was read from the text 10x3 as 10, the first run of digits
C14_Witness ==
    /\ ReadOf("Game", "overtime")
    /\ Eq(ReadGame.overtime, StrV(<<"1", "0", "x", "3">>))
    /\ Eq(ret.val, IntV(10))

\* C15: reading location gives AWAY exactly when the raw venue marker is
\* the text @, and HOME for every other raw value, the empty and the
\* absent one included; it never gives NEUTRAL.
C15_LocationAwayOrHome ==
    ReadOf("Game", "location") =>
        /\ Eq(ret.val, AWAY) <=> Eq(ReadGame.location, StrV(At))
        /\ ~Eq(ReadGame.location, StrV(At)) => Eq(ret.val, HOME)
        /\ ~Eq(ret.val, NEUTRAL)

\* location was read as HOME from the venue marker N
C15_Witness ==
    /\ ReadOf("Game", "location")
    /\ Eq(ReadGame.location, StrV(<<"N">>))
    /\ Eq(ret.val, HOME)

\* the text of the first cell named stat in the rows of data, None when
\* no row has one
DataCell(data, stat) ==
    LET cs == Flatten(data)
        at == {i \in 1..Len(cs) : cs[i].stat = stat}
    IN  IF at = {} THEN None ELSE StrV(cs[Min(at)].text)
\* the path of the link in the row's cell named stat, <<>> without one
LinkOf(row, stat) ==
    LET at == {i \in 1..Len(row.cells) : row.cells[i].stat = stat}
    IN  IF at = {} THEN <<>> ELSE row.cells[Min(at)].link
\* a text without a newline
OneLine(s) == \A i \in 1..Len(s) : s[i] # "\n"
\* the fields of a Game the scheme names, with their data-stat
SchemeStatOf ==
    [date |-> "date_game", time |-> "time_game", location |-> "game_location",
     opponent_name |-> "opp_name", goals_scored |-> "goals",
     result |-> "game_outcome", overtime |-> "overtimes",
     streak |-> "game_streak", attendance |-> "attendance",
     length_of_game |-> "game_duration"]

\* the year Teams hands to each Team: the caller's, or the season's year it
\* looked up when the caller gave none (None, or another value that counts
\* as false)
YearPassedToTeam ==
    IF Falsy(year_given)
      THEN StrV(<<"F", "O", "U", "N", "D", "-", "n", "b", "a">>)
      ELSE year_given

\* the rank a record's constructor was given: the merged dictionary's for a
\* record of a container, the caller's for a record built on its own
RankPassedIn(i) ==
    IF pc = "teams" THEN IntV(data_dict[i].rank) ELSE rank_given

\* every field but the rank and the year comes from the scheme; the rank
\* and the year are stored as the constructor was given them; a Game has
\* opponent_abbr and boxscore from the path of the opponent link and of the
\* boxscore link, not from the scheme's cell text, and every other field
\* from the scheme
FieldsParsedExceptPassedIn ==
    /\ pc = "teams" =>
          \A i \in 1..Len(teams) :
              LET data == data_dict[i].data
              IN  /\ Eq(teams[i].rank, RankPassedIn(i))
                  /\ Eq(teams[i].year, YearPassedToTeam)
                  /\ Eq(teams[i].abbreviation, data_dict[i].key)
                  /\ Eq(teams[i].name, DataCell(data, "team_name"))
                  /\ Eq(teams[i].games_played, DataCell(data, "g"))
                  /\ Eq(teams[i].field_goal_percentage, DataCell(data, "fg_pct"))
                  /\ Eq(teams[i].points, DataCell(data, "pts"))
                  /\ Eq(teams[i].opp_field_goal_percentage,
                        DataCell(data, "opp_fg_pct"))
                  /\ Eq(teams[i].opp_points, DataCell(data, "opp_pts"))
    /\ pc = "team" =>
          /\ Len(teams) = 1
          /\ Eq(teams[1].rank, rank_given)
          /\ Eq(teams[1].year, year_given)
          /\ AbbrOf(teams[1].abbreviation)
                = (IF RowAbbr(offense[1]) # NoLink THEN RowAbbr(offense[1])
                   ELSE RowAbbr(offense[Len(offense)]))
          /\ Eq(teams[1].name, DataCell(offense, "team_name"))
          /\ Eq(teams[1].games_played, DataCell(offense, "g"))
          /\ Eq(teams[1].field_goal_percentage, DataCell(offense, "fg_pct"))
          /\ Eq(teams[1].points, DataCell(offense, "pts"))
          /\ Eq(teams[1].opp_field_goal_percentage,
                DataCell(offense, "opp_fg_pct"))
          /\ Eq(teams[1].opp_points, DataCell(offense, "opp_pts"))
    /\ pc = "schedule" =>
          \A i \in 1..Len(games) :
              LET row == NonHeaderRows[i]
              IN  /\ \A f \in DOMAIN SchemeStatOf :
                        Eq(games[i][f], DataCell(<<row>>, SchemeStatOf[f]))
                  /\ ~Eq(games[i].opponent_abbr, DataCell(<<row>>, "opp_name"))
                  /\ ~Eq(games[i].boxscore, DataCell(<<row>>, "box_score_text"))
                  /\ LinkOf(row, "opp_name") = NYR_href =>
                        /\ IsStr(games[i].opponent_abbr)
                        /\ SubSeq(games[i].opponent_abbr.v, 1, 3)
                             = <<"N", "Y", "R">>
                        /\ OneLine(DataCell(<<row>>, "opp_name").v) =>
                              Len(games[i].opponent_abbr.v) = 3
                  /\ LinkOf(row, "box_score_text") = BoxA_href =>
                        /\ IsStr(games[i].boxscore)
                        /\ SubSeq(games[i].boxscore.v, 1, 6)
                             = <<"A", ".", "h", "t", "m", "l">>

\* n is the whole part of num / den (den > 0): the integer next to it on
\* the side of zero
WholePart(n, num, den) ==
    IF num >= 0 THEN n >= 0 /\ n * den <= num /\ num < (n + 1) * den
    ELSE n <= 0 /\ num <= n * den /\ (n - 1) * den < num

\* C16 as stated: the fields are parsed except the ones passed in, and the
\* rank accessor returns the rank the constructor was given.
C16_RankReadIsRankPassedIn ==
    /\ FieldsParsedExceptPassedIn
    /\ ReadOf("Team", "rank") => Eq(ret.val, RankPassedIn(ret.arg[1]))

\* C16 (amended): the fields are parsed except the ones passed in, which
\* are stored as given, and the rank accessor returns int() of the rank the
\* constructor was given: that rank when it is an int (as every rank a
\* Teams container assigns is), the whole part of a float, the number a
\* digit text denotes, and a TypeError for None.
C16_RankReadIsIntOfRankPassedIn ==
    /\ FieldsParsedExceptPassedIn
    /\ ReadOf("Team", "rank") =>
          LET r == RankPassedIn(ret.arg[1])
          IN  /\ IsInt(r) => Eq(ret.val, r)
              /\ (IsFloat(r) /\ r.v[2] > 0) =>
                    IsInt(ret.val) /\ WholePart(ret.val.v, r.v[1], r.v[2])
              /\ IsDigitString(r) =>
                    IsInt(ret.val) /\ ToDigits(ret.val.v) = StripZeros(r.v)
              /\ IsNone(r) => Eq(ret.val, Raise("TypeError"))

\* a Team built with the rank -1.5 keeps that rank, and its rank accessor
\* has returned -1
C16_Witness ==
    /\ pc = "team" /\ ReadOf("Team", "rank")
    /\ Eq(rank_given, FloatV(-3, 2)) /\ Eq(teams[1].rank, FloatV(-3, 2))
    /\ Eq(ret.val, IntV(-1))

\* a Team of a container has read its rank, the int the merge gave it
C16_ContainerWitness ==
    /\ pc = "teams" /\ ReadOf("Team", "rank") /\ Len(teams) = 2
    /\ Eq(ret.val, IntV(2)) /\ Eq(teams[ret.arg[1]].rank, IntV(2))

\* a schedule with a game against the Rangers whose abbreviation NYR came
\* from the link while its name came from the cell text
C16_GameWitness ==
    /\ pc = "schedule"
    /\ \E i \in 1..Len(games) :
          /\ Eq(games[i].opponent_abbr, StrV(<<"N", "Y", "R">>))
          /\ Eq(games[i].opponent_name, StrV(Rangers))
          /\ LinkOf(NonHeaderRows[i], "box_score_text") = BoxA_href

\* C17: for a raw result and a raw overtime that are both text, reading
\* result gives one of WIN, OVERTIME_LOSS and LOSS; a raw W or w gives WIN
\* whatever the overtime text; a raw result that is neither w nor l in any
\* letter case, the empty text included, gives LOSS whatever the overtime
\* text.
C17_ResultTotalWinFirst ==
    (ReadOf("Game", "result") /\ IsStr(ReadGame.result)) =>
        LET r == ReadGame.result.v
        IN  /\ IsStr(ReadGame.overtime) =>
                  \E c \in {WIN, OVERTIME_LOSS, LOSS} : Eq(ret.val, c)
            /\ r \in {<<"W">>, <<"w">>} => Eq(ret.val, WIN)
            /\ r \notin {<<"W">>, <<"w">>, <<"L">>, <<"l">>} => Eq(ret.val, LOSS)

\* a raw w whose overtime text is a shootout was read as WIN
C17_Witness ==
    /\ ReadOf("Game", "result")
    /\ Eq(ReadGame.result, StrV(<<"w">>))
    /\ Eq(ReadGame.overtime, StrV(<<"S", "O">>))
    /\ Eq(ret.val, WIN)

\* pairs of different records of the container
RecordPairs == {p \in (1..Len(teams)) \X (1..Len(teams)) : p[1] < p[2]}
SameRank(p) == Eq(teams[p[1]].rank, teams[p[2]].rank)
SameCaselessAbbr(p) ==
    upper(teams[p[1]].abbreviation.v) = upper(teams[p[2]].abbreviation.v)
\* both records' abbreviations are first seen in the same table
FirstSeenInSameTable(p) ==
    (teams[p[1]].abbreviation.v \in AbbrsOf(offense))
        <=> (teams[p[2]].abbreviation.v \in AbbrsOf(offense))

\* C18 as stated: in a built container no two records have the same rank,
\* and no two records have abbreviations that are equal under the
\* case-insensitive comparison of the lookup.
C18_UniqueRankAndCaselessAbbr ==
    pc = "teams" =>
        \A p \in RecordPairs : ~SameRank(p) /\ ~SameCaselessAbbr(p)

\* C18 (amended): in a built container no two records whose abbreviations
\* are first seen in the same table have the same rank, and no two records
\* have the same abbreviation as written.
C18_UniqueRankPerTableAndExactAbbr ==
    pc = "teams" =>
        \A p \in RecordPairs :
            /\ FirstSeenInSameTable(p) => ~SameRank(p)
            /\ ~Eq(teams[p[1]].abbreviation, teams[p[2]].abbreviation)

\* a container of three records, two from the offense table and one from
\* the opponent table only, two of the records alike but for letter case
C18_Witness ==
    /\ pc = "teams" /\ Len(teams) = 3
    /\ \E p \in RecordPairs : SameCaselessAbbr(p)
    /\ \E p \in RecordPairs : SameRank(p) /\ ~FirstSeenInSameTable(p)
    /\ \E p \in RecordPairs : FirstSeenInSameTable(p)

=============================================================================
